---- MODULE Spec2Model ----
(***************************************************************************)
(* Skill-test assessment engine (backend/routes/skill_tests.py and         *)
(* backend/services/ai_service.py): the attempt row and the stage          *)
(* handlers that read and write it, the start_attempt handler on the       *)
(* attempts table, and the table allow-list of sql_run.                    *)
(*                                                                         *)
(* Conventions.  A nullable JSON column is <<>> when NULL and <<v>> when   *)
(* it holds v.  A score is the exact quotient <<n, d>> in lowest terms;    *)
(* every threshold it is compared with is an integer.  An MCQ question is  *)
(* its correct_answer index, its id is its position in the list            *)
(* (ai_service.py sets id = i + 1).                                        *)
(***************************************************************************)
EXTENDS Integers, Sequences, FiniteSets, TLC

\* ---- bounds of the model -------------------------------------------------
MaxRequests == 4     \* stage requests a client issues on the attempt
MaxStudentReqs == 3  \* start_attempt requests of one student for one test

\* ---- helpers -------------------------------------------------------------
\* A nullable column.
None == <<>>
Some(v) == <<v>>
Truthy(col) == col # None
OrEmpty(col) == IF col = None THEN <<>> ELSE col[1]

Min(a, b) == IF a <= b THEN a ELSE b

RECURSIVE SumSeq(_)
SumSeq(s) == IF s = <<>> THEN 0 ELSE Head(s) + SumSeq(Tail(s))

Take(s, n) == SubSeq(s, 1, Min(n, Len(s)))

RECURSIVE GCD(_, _)
GCD(a, b) == IF b = 0 THEN a ELSE GCD(b, a % b)

\* The exact quotient n / d (d > 0) in lowest terms.
Ratio(n, d) == <<n \div GCD(n, d), d \div GCD(n, d)>>
Zero == Ratio(0, 1)
\* r >= p for a quotient r and an integer p
Geq(r, p) == r[1] >= p * r[2]
\* (c / t * 100) if t else 0
Percent(c, t) == IF t = 0 THEN Zero ELSE Ratio(c * 100, t)
\* x or d
OrDefault(x, d) == IF x = 0 THEN d ELSE x

\* ---- state ---------------------------------------------------------------
VARIABLES
  test,        \* the skill_tests row the attempt belongs to
  attempt,     \* the skill_test_attempts row
  sandbox,     \* the four sandbox tables of the test
  resp,        \* what the last handler returned
  nreq,        \* stage requests issued so far
  attempts,    \* attempt rows of one (test, student) pair, by id: attempt_number,
               \* 0 once the row is deleted
  reqs,        \* start_attempt requests in flight
  query,       \* sql_run: the submitted query
  executed,    \* sql_run: the tables the store read for the query
  call,        \* _create_sandbox / _drop_sandbox: the statement each is at
  service,     \* how the AI service answers ("any": differently at each call)
  logs         \* skill_proctoring_logs: the number of rows per attempt id and severity

vars ==
  <<test, attempt, sandbox, resp, nreq, attempts, reqs, query, executed, call,
    service, logs>>

BASE_TABLES == <<"employees", "departments", "projects", "orders">>

\* The row start_attempt inserts: the INSERT names test_id, student_id,
\* student_name and attempt_number; every other column takes its default.
NewAttempt ==
  [ current_stage |-> "mcq", overall_status |-> "in_progress",
    mcq_status |-> "pending", coding_status |-> "pending",
    sql_status |-> "pending", interview_status |-> "pending",
    mcq_questions |-> None, mcq_answers |-> None, mcq_score |-> Zero,
    coding_problems |-> None, coding_submissions |-> {}, coding_score |-> Zero,
    sql_problems |-> None, sql_submissions |-> {}, sql_score |-> Zero,
    interview_qa |-> <<>>, interview_score |-> Zero,
    report |-> "NULL", mcq_violations |-> None ]

\* A handler's return value; a handler fills the fields it returns. reports is
\* the number of generate_final_report calls the handler made.
NoResp == [op |-> "none", ok |-> TRUE, score |-> Zero, passed |-> FALSE,
           content |-> None, generated |-> FALSE, scored |-> FALSE,
           finished |-> FALSE, error |-> "none", reports |-> 0]

\* ---- inputs --------------------------------------------------------------
\* Test definitions an administrator creates (create_test): two MCQ questions,
\* two coding and two SQL problems, two interview turns, the default attempt
\* limit; the passing scores are the defaults of create_test, or all zero.
Tests ==
  { [ id |-> 1, attempt_limit |-> 3,
      mcq_count |-> 2, coding_count |-> 2, sql_count |-> 2, interview_count |-> 2,
      mcq_passing_score |-> p[1], coding_passing_score |-> p[1],
      sql_passing_score |-> p[1], interview_passing_score |-> p[2],
      skills |-> <<"python">> ] : p \in {<<60, 5>>, <<0, 0>>} }

\* What a handler stores as the report: the object generate_final_report returns
\* (the service's or _default_report), or the summary of the handler's except
\* branch. Each is a non-null JSON object; the model keeps them as one value.
Reports == {"report"}

\* ---- sandbox -------------------------------------------------------------
NoSandbox == [t \in {BASE_TABLES[i] : i \in 1..4} |-> "absent"]

\* INSERT of the seed rows into the tables order[1..], each statement committed
\* on its own; the rows carry fixed primary keys, so an INSERT into a table that
\* holds them already raises and ends the call.
RECURSIVE SeedTables(_, _)
SeedTables(sb, order) ==
  IF order = <<>> THEN sb
  ELSE IF sb[Head(order)] # "empty" THEN sb
  ELSE SeedTables([sb EXCEPT ![Head(order)] = "seeded"], Tail(order))

\* _create_sandbox: CREATE TABLE IF NOT EXISTS for the four tables, then the
\* seed rows if employees is empty.
create_sandbox(sb) ==
  LET created == [t \in DOMAIN sb |-> IF sb[t] = "absent" THEN "empty" ELSE sb[t]]
  IN IF created["employees"] = "empty"
     THEN SeedTables(created, <<"departments", "employees", "projects", "orders">>)
     ELSE created

\* ---- stage 1: MCQ --------------------------------------------------------
\* An MCQ question is its correct_answer index; its id is its position.
\* An answer a client sends for a question is "none" (no entry), a letter
\* "A".."D" or an option index "i0".."i3".
QuestionIds == {1, 2}
McqPayloads == [QuestionIds -> {"none", "A", "i0"}]
\* The payloads that answer every question with "A", or none.
ProctoredPayloads == {[q \in QuestionIds |-> a] : a \in {"none", "A"}}

\* What the service can answer to an MCQ generation request: <<>> stands for a
\* failed call or an answer that does not parse or validate; in a validated
\* answer every question validates, so that ids are positions.
McqAiAnswers == {<<>>, <<1, 0>>}

\* generate_fallback_mcq: min(count, len(skills) * 3) questions, correct_answer 0.
generate_fallback_mcq(skills, count) ==
  [i \in 1..Min(count, Len(skills) * 3) |-> 0]

\* generate_mcq_questions: the validated questions of the service, else the fallback.
generate_mcq_questions(skills, count, ai) ==
  IF ai # <<>> THEN ai ELSE generate_fallback_mcq(skills, count)

\* answers.get(str(id)) or answers.get(id): a falsy value (None, 0) gives way to
\* the lookup under the integer key, which a JSON body never has.
SubmittedAnswer(answers, id) ==
  IF id \in DOMAIN answers /\ answers[id] \notin {"none", "i0"}
  THEN answers[id] ELSE "none"

\* _mcq_answer_index
mcq_answer_index(answer) ==
  CASE answer = "A" -> 0 [] answer = "B" -> 1 [] answer = "C" -> 2
    [] answer = "D" -> 3 [] answer = "i0" -> 0 [] answer = "i1" -> 1
    [] answer = "i2" -> 2 [] answer = "i3" -> 3 [] OTHER -> -1

\* the scoring loop of mcq_submit
CorrectCount(questions, answers) ==
  Cardinality({i \in 1..Len(questions) :
     mcq_answer_index(SubmittedAnswer(answers, i)) = questions[i]})

\* passed = score >= (attempt.get("mcq_passing_score") or 60)
mcq_passed(score) == Geq(score, OrDefault(test.mcq_passing_score, 60))

\* mcq_start that hands out no questions when the service gives none.
mcq_start_no_fallback(ai) ==
  IF Truthy(attempt.mcq_questions)
  THEN /\ resp' = [NoResp EXCEPT !.op = "mcq_start",
                     !.content = attempt.mcq_questions]
       /\ UNCHANGED attempt
  ELSE IF ai = <<>>
  THEN /\ resp' = [NoResp EXCEPT !.op = "mcq_start", !.ok = FALSE]
       /\ UNCHANGED attempt
  ELSE /\ attempt' = [attempt EXCEPT !.mcq_questions = Some(ai)]
       /\ resp' = [NoResp EXCEPT !.op = "mcq_start",
                     !.content = Some(ai), !.generated = TRUE]

\* POST /mcq/start/{attempt_id}
mcq_start(ai) ==
  IF Truthy(attempt.mcq_questions)
  THEN /\ resp' = [NoResp EXCEPT !.op = "mcq_start",
                     !.content = attempt.mcq_questions]
       /\ UNCHANGED attempt
  ELSE LET questions ==
             generate_mcq_questions(test.skills, OrDefault(test.mcq_count, 10), ai)
       IN /\ attempt' = [attempt EXCEPT !.mcq_questions = Some(questions)]
          /\ resp' = [NoResp EXCEPT !.op = "mcq_start",
                        !.content = Some(questions), !.generated = TRUE]

\* POST /mcq/submit
mcq_submit(answers, rep) ==
  LET questions == OrEmpty(attempt.mcq_questions) IN
  IF attempt.mcq_status = "completed" \/ attempt.current_stage # "mcq"
  THEN /\ resp' = [NoResp EXCEPT !.op = "mcq_submit",
                     !.score = attempt.mcq_score,
                     !.passed = Geq(attempt.mcq_score, test.mcq_passing_score)]
       /\ UNCHANGED attempt
  ELSE LET score == Percent(CorrectCount(questions, answers), Len(questions))
           passed == mcq_passed(score)
       IN /\ attempt' =
               IF ~passed
               THEN [attempt EXCEPT !.mcq_answers = Some(answers), !.mcq_score = score,
                       !.mcq_status = "failed", !.current_stage = "mcq",
                       !.overall_status = "failed", !.report = rep]
               ELSE [attempt EXCEPT !.mcq_answers = Some(answers), !.mcq_score = score,
                       !.mcq_status = "completed", !.current_stage = "coding",
                       !.overall_status = "in_progress"]
          /\ resp' = [NoResp EXCEPT !.op = "mcq_submit", !.score = score,
                        !.passed = passed, !.scored = TRUE,
                        !.reports = IF passed THEN 0 ELSE 1]

\* ---- stage 2: coding -----------------------------------------------------
\* A coding problem is its id; coding_submissions is the set of problem ids
\* that have an entry (every entry is stored with passed = True).
ProblemIds == {1, 2}
CodingAiAnswers == {<<>>, <<1>>}

\* generate_fallback_coding: the first min(count, 3) of the three static problems.
generate_fallback_coding(count) == Take(<<1, 2, 3>>, count)

\* generate_coding_problems: the first count problems of the service, else the fallback.
generate_coding_problems(count, ai) ==
  IF ai # <<>> THEN Take(ai, count) ELSE generate_fallback_coding(count)

\* coding_start without the "already generated" branch.
coding_start_always_generates(ai) ==
  LET problems == generate_coding_problems(OrDefault(test.coding_count, 3), ai)
  IN /\ attempt' = [attempt EXCEPT !.coding_problems = Some(problems)]
     /\ resp' = [NoResp EXCEPT !.op = "coding_start",
                   !.content = Some(problems), !.generated = TRUE]

\* POST /coding/start/{attempt_id}
coding_start(ai) ==
  IF Truthy(attempt.coding_problems)
  THEN /\ resp' = [NoResp EXCEPT !.op = "coding_start",
                     !.content = attempt.coding_problems]
       /\ UNCHANGED attempt
  ELSE LET problems == generate_coding_problems(OrDefault(test.coding_count, 3), ai)
       IN /\ attempt' = [attempt EXCEPT !.coding_problems = Some(problems)]
          /\ resp' = [NoResp EXCEPT !.op = "coding_start",
                        !.content = Some(problems), !.generated = TRUE]

\* coding_regenerate that starts the stage over: the submissions are cleared.
coding_regenerate_clears_submissions(ai) ==
  LET problems == generate_coding_problems(OrDefault(test.coding_count, 3), ai)
  IN /\ attempt' = [attempt EXCEPT !.coding_problems = Some(problems),
                                    !.coding_submissions = {}]
     /\ resp' = [NoResp EXCEPT !.op = "coding_regenerate",
                   !.content = Some(problems), !.generated = TRUE]

\* POST /coding/regenerate/{attempt_id}
coding_regenerate(ai) ==
  LET problems == generate_coding_problems(OrDefault(test.coding_count, 3), ai)
  IN /\ attempt' = [attempt EXCEPT !.coding_problems = Some(problems)]
     /\ resp' = [NoResp EXCEPT !.op = "coding_regenerate",
                   !.content = Some(problems), !.generated = TRUE]

\* POST /coding/submit
coding_submit(problem_id) ==
  /\ attempt' = [attempt EXCEPT !.coding_submissions = @ \cup {problem_id}]
  /\ resp' = [NoResp EXCEPT !.op = "coding_submit", !.passed = TRUE]

\* passed = score >= (attempt.get("coding_passing_score") or 60)
coding_passed(score) == Geq(score, OrDefault(test.coding_passing_score, 60))

\* coding_finish whose failing UPDATE leaves overall_status and report alone.
coding_finish_status_only(rep) ==
  LET num == Len(OrEmpty(attempt.coding_problems))
      submitted == Cardinality(attempt.coding_submissions)
      score == Percent(submitted, num)
      passed == coding_passed(score)
  IN /\ attempt' =
          IF ~passed
          THEN [attempt EXCEPT !.coding_score = score, !.coding_status = "failed",
                  !.current_stage = "coding"]
          ELSE [attempt EXCEPT !.coding_score = score, !.coding_status = "completed",
                  !.current_stage = "sql"]
     /\ resp' = [NoResp EXCEPT !.op = "coding_finish", !.score = score,
                   !.passed = passed, !.scored = TRUE]

\* POST /coding/finish/{attempt_id}
coding_finish(rep) ==
  LET num == Len(OrEmpty(attempt.coding_problems))
      submitted == Cardinality(attempt.coding_submissions)
      score == Percent(submitted, num)
      passed == coding_passed(score)
  IN /\ attempt' =
          IF ~passed
          THEN [attempt EXCEPT !.coding_score = score, !.coding_status = "failed",
                  !.current_stage = "coding", !.overall_status = "failed",
                  !.report = rep]
          ELSE [attempt EXCEPT !.coding_score = score, !.coding_status = "completed",
                  !.current_stage = "sql"]
     /\ resp' = [NoResp EXCEPT !.op = "coding_finish", !.score = score,
                   !.passed = passed, !.scored = TRUE,
                   !.reports = IF passed THEN 0 ELSE 1]

\* ---- stage 3: SQL --------------------------------------------------------
\* A SQL problem is its id and the table names its reference query is written
\* against; sql_submissions is the set of <<problem id, passed>> entries, one
\* per problem id.
SqlProblem(id, ref) == [id |-> id, ref |-> ref]
SqlAiAnswers == {<<>>, <<SqlProblem(1, "sandbox")>>}

\* _default_sql_problems: the first min(count, 3) of the three static problems,
\* whose reference queries name employees and orders.
default_sql_problems(count) ==
  Take(<<SqlProblem(1, "generic"), SqlProblem(2, "generic"), SqlProblem(3, "generic")>>,
       count)

\* generate_sql_problems: the first count problems of the service, else the static ones.
generate_sql_problems(count, ai) ==
  IF ai # <<>> THEN Take(ai, count) ELSE default_sql_problems(count)

\* POST /sql/start/{attempt_id}
sql_start(ai) ==
  IF Truthy(attempt.sql_problems)
  THEN /\ resp' = [NoResp EXCEPT !.op = "sql_start",
                     !.content = attempt.sql_problems]
       /\ UNCHANGED <<attempt, sandbox>>
  ELSE LET problems == generate_sql_problems(OrDefault(test.sql_count, 3), ai)
       IN /\ sandbox' = create_sandbox(sandbox)
          /\ attempt' = [attempt EXCEPT !.sql_problems = Some(problems)]
          /\ resp' = [NoResp EXCEPT !.op = "sql_start",
                        !.content = Some(problems), !.generated = TRUE]

\* POST /sql/regenerate/{attempt_id}
sql_regenerate(ai) ==
  LET problems == generate_sql_problems(OrDefault(test.sql_count, 3), ai)
  IN /\ attempt' = [attempt EXCEPT !.sql_problems = Some(problems)]
     /\ resp' = [NoResp EXCEPT !.op = "sql_regenerate",
                   !.content = Some(problems), !.generated = TRUE]

\* POST /sql/evaluate: is_select says whether the query starts with SELECT,
\* verdict is the "passed" evaluate_sql_query returns (False on a failed call).
sql_evaluate(problem_id, is_select, verdict) ==
  LET problems == OrEmpty(attempt.sql_problems) IN
  IF ~is_select
  THEN /\ resp' = [NoResp EXCEPT !.op = "sql_evaluate"]
       /\ UNCHANGED attempt
  ELSE IF \A i \in 1..Len(problems) : problems[i].id # problem_id
  THEN /\ resp' = [NoResp EXCEPT !.op = "sql_evaluate", !.ok = FALSE]
       /\ UNCHANGED attempt
  ELSE /\ attempt' = [attempt EXCEPT !.sql_submissions =
                        {e \in @ : e[1] # problem_id} \cup {<<problem_id, verdict>>}]
       /\ resp' = [NoResp EXCEPT !.op = "sql_evaluate", !.passed = verdict]

\* passed = score >= (attempt.get("sql_passing_score") or 60)
sql_passed(score) == Geq(score, OrDefault(test.sql_passing_score, 60))

\* sql_finish whose failing branch neither builds nor stores a report.
sql_finish_without_report(rep) ==
  LET num == Len(OrEmpty(attempt.sql_problems))
      submitted == Cardinality(attempt.sql_submissions)
      score == Percent(submitted, num)
      passed == sql_passed(score)
  IN /\ attempt' =
          IF ~passed
          THEN [attempt EXCEPT !.sql_score = score, !.sql_status = "failed",
                  !.current_stage = "sql", !.overall_status = "failed"]
          ELSE [attempt EXCEPT !.sql_score = score, !.sql_status = "completed",
                  !.current_stage = "interview"]
     /\ resp' = [NoResp EXCEPT !.op = "sql_finish", !.score = score,
                   !.passed = passed, !.scored = TRUE]

\* POST /sql/finish/{attempt_id}
sql_finish(rep) ==
  LET num == Len(OrEmpty(attempt.sql_problems))
      submitted == Cardinality(attempt.sql_submissions)
      score == Percent(submitted, num)
      passed == sql_passed(score)
  IN /\ attempt' =
          IF ~passed
          THEN [attempt EXCEPT !.sql_score = score, !.sql_status = "failed",
                  !.current_stage = "sql", !.overall_status = "failed",
                  !.report = rep]
          ELSE [attempt EXCEPT !.sql_score = score, !.sql_status = "completed",
                  !.current_stage = "interview"]
     /\ resp' = [NoResp EXCEPT !.op = "sql_finish", !.score = score,
                   !.passed = passed, !.scored = TRUE,
                   !.reports = IF passed THEN 0 ELSE 1]

\* ---- stage 4: interview --------------------------------------------------
\* interview_qa is the list of the recorded turns, each turn its score.
\* The score evaluate_interview_answer returns: the judge's, or 5 on failure.
TurnScores == {0, 5, 10}

\* An interview question is its category. What the service can answer to a
\* question request: <<>> stands for a failed call or an answer without a
\* "question".
InterviewAiAnswers == {<<>>, <<"service">>}

\* _fallback_question: skills[question_number % len(skills)], else "programming".
fallback_question(skills, question_number) ==
  IF skills = <<>> THEN "programming"
  ELSE skills[(question_number % Len(skills)) + 1]

\* generate_interview_question: the question of the service, else the fallback.
generate_interview_question(skills, question_number, ai) ==
  IF ai # <<>> THEN ai[1] ELSE fallback_question(skills, question_number)

\* POST /interview/start/{attempt_id}: nothing is written.
interview_start(ai) ==
  LET total == OrDefault(test.interview_count, 5)
      question == generate_interview_question(test.skills,
                                              Len(attempt.interview_qa) + 1, ai)
  IN
  /\ resp' = IF Len(attempt.interview_qa) >= total
             THEN [NoResp EXCEPT !.op = "interview_start", !.finished = TRUE]
             ELSE [NoResp EXCEPT !.op = "interview_start", !.generated = TRUE,
                     !.content = Some(<<question>>)]
  /\ UNCHANGED attempt

\* passed = avg_score >= (attempt.get("interview_passing_score") or 5)
interview_passed(avg) == Geq(avg, OrDefault(test.interview_passing_score, 5))

\* POST /interview/answer
interview_answer(turn_score, rep) ==
  LET qa_list == Append(attempt.interview_qa, turn_score)
      total == OrDefault(test.interview_count, 5)
      is_last == Len(qa_list) >= total
      avg_score == Ratio(SumSeq(qa_list), Len(qa_list))
      passed == interview_passed(avg_score)
  IN /\ attempt' =
          IF is_last
          THEN IF passed
               THEN [attempt EXCEPT !.interview_qa = qa_list,
                       !.interview_score = avg_score,
                       !.interview_status = "completed",
                       !.current_stage = "completed",
                       !.overall_status = "completed", !.report = rep]
               ELSE [attempt EXCEPT !.interview_qa = qa_list,
                       !.interview_score = avg_score,
                       !.interview_status = "failed",
                       !.current_stage = "interview",
                       !.overall_status = "failed", !.report = rep]
          ELSE [attempt EXCEPT !.interview_qa = qa_list]
     /\ resp' = IF is_last
                THEN [NoResp EXCEPT !.op = "interview_answer", !.finished = TRUE,
                        !.score = avg_score, !.passed = passed, !.scored = TRUE,
                        !.reports = 1]
                ELSE [NoResp EXCEPT !.op = "interview_answer", !.generated = TRUE]

\* ---- the attempt under any sequence of stage requests ---------------------
NoCall == [pc |-> 0, drop |-> 0, had_sql |-> "none"]

\* The attempt of the model has id 1; 2 is the id of another attempt.
ProctoredIds == {1, 2}
Severities == {"low", "medium", "high"}
NoLogs == [e \in ProctoredIds \X Severities |-> 0]
Idle ==
  /\ attempts = <<>> /\ reqs = <<>> /\ query = <<>> /\ executed = {}
  /\ call = NoCall /\ service = "any" /\ logs = NoLogs

\* create_test has stored the test and provisioned its sandbox (sql_count > 0),
\* start_attempt has inserted the attempt.
Init ==
  /\ test \in Tests
  /\ attempt = NewAttempt
  /\ sandbox = create_sandbox(NoSandbox)
  /\ resp = NoResp
  /\ nreq = 0
  /\ Idle

\* One stage request of the client; the handler runs to its return. The
\* handlers of this part leave the attempts table and sql_run's state alone.
StageRequest ==
  /\ nreq < MaxRequests
  /\ nreq' = nreq + 1
  /\ UNCHANGED <<test, attempts, reqs, query, executed, call, service, logs>>

McqStart ==
  StageRequest /\ \E ai \in McqAiAnswers : mcq_start(ai) /\ UNCHANGED sandbox
McqSubmit ==
  StageRequest /\ \E answers \in McqPayloads, rep \in Reports :
                     mcq_submit(answers, rep) /\ UNCHANGED sandbox
CodingStart ==
  StageRequest /\ \E ai \in CodingAiAnswers : coding_start(ai) /\ UNCHANGED sandbox
CodingRegenerate ==
  StageRequest /\ \E ai \in CodingAiAnswers :
                     coding_regenerate(ai) /\ UNCHANGED sandbox
CodingSubmit ==
  StageRequest /\ \E id \in ProblemIds : coding_submit(id) /\ UNCHANGED sandbox
CodingFinish ==
  StageRequest /\ \E rep \in Reports : coding_finish(rep) /\ UNCHANGED sandbox
SqlStart ==
  StageRequest /\ \E ai \in SqlAiAnswers : sql_start(ai)
SqlRegenerate ==
  StageRequest /\ \E ai \in SqlAiAnswers : sql_regenerate(ai) /\ UNCHANGED sandbox
SqlEvaluate ==
  StageRequest /\ \E id \in ProblemIds, is_select \in BOOLEAN, verdict \in BOOLEAN :
                     sql_evaluate(id, is_select, verdict) /\ UNCHANGED sandbox
SqlFinish ==
  StageRequest /\ \E rep \in Reports : sql_finish(rep) /\ UNCHANGED sandbox
InterviewStart ==
  StageRequest /\ \E ai \in InterviewAiAnswers :
                     interview_start(ai) /\ UNCHANGED sandbox
InterviewAnswer ==
  StageRequest /\ \E s \in TurnScores, rep \in Reports :
                     interview_answer(s, rep) /\ UNCHANGED sandbox

Next ==
  \/ McqStart
  \/ McqSubmit
  \/ CodingStart
  \/ CodingRegenerate
  \/ CodingSubmit
  \/ CodingFinish
  \/ SqlStart
  \/ SqlRegenerate
  \/ SqlEvaluate
  \/ SqlFinish
  \/ InterviewStart
  \/ InterviewAnswer

Spec == Init /\ [][Next]_vars

\* ---- properties of the stage handlers -------------------------------------
StageOrder == <<"mcq", "coding", "sql", "interview", "completed">>
StageIndex(s) == CHOOSE i \in 1..5 : StageOrder[i] = s

\* The stage a scoring handler belongs to.
ScoringOps == {"mcq_submit", "coding_finish", "sql_finish", "interview_answer"}
StageOf(op) ==
  CASE op = "mcq_submit" -> "mcq" [] op = "coding_finish" -> "coding"
    [] op = "sql_finish" -> "sql" [] op = "interview_answer" -> "interview"

StatusOf(a, stage) ==
  CASE stage = "mcq" -> a.mcq_status [] stage = "coding" -> a.coding_status
    [] stage = "sql" -> a.sql_status [] stage = "interview" -> a.interview_status

ScoreOf(a, stage) ==
  CASE stage = "mcq" -> a.mcq_score [] stage = "coding" -> a.coding_score
    [] stage = "sql" -> a.sql_score [] stage = "interview" -> a.interview_score

\* The passing score the test configures for a stage.
ConfiguredPassingScore(stage) ==
  CASE stage = "mcq" -> test.mcq_passing_score
    [] stage = "coding" -> test.coding_passing_score
    [] stage = "sql" -> test.sql_passing_score
    [] stage = "interview" -> test.interview_passing_score

\* The stage machine's part of the row: stage, overall status, statuses, scores.
Progress(a) ==
  <<a.current_stage, a.overall_status,
    a.mcq_status, a.coding_status, a.sql_status, a.interview_status,
    a.mcq_score, a.coding_score, a.sql_score, a.interview_score>>

\* C1: every change of current_stage goes to the immediate successor in
\* mcq -> coding -> sql -> interview -> completed (no regression, no skipping).
C1_StageOrder ==
  [][attempt'.current_stage # attempt.current_stage
       => StageIndex(attempt'.current_stage) = StageIndex(attempt.current_stage) + 1]_vars

\* C2: once overall_status is failed or completed, no stage operation changes
\* overall_status, current_stage, a stage status or a stage score.
C2_TerminalIsFinal ==
  [][attempt.overall_status \in {"failed", "completed"}
       => Progress(attempt') = Progress(attempt)]_vars

\* C4: a scoring whose score is below the stage's passing score persists, in
\* the same operation, stage status failed, overall_status failed, current_stage
\* at the failing stage and a non-null report.
C4_FailurePersisted ==
  [][(/\ resp'.op \in ScoringOps
      /\ resp'.scored
      /\ ~Geq(resp'.score, ConfiguredPassingScore(StageOf(resp'.op))))
       => /\ StatusOf(attempt', StageOf(resp'.op)) = "failed"
          /\ attempt'.overall_status = "failed"
          /\ attempt'.current_stage = StageOf(resp'.op)
          /\ attempt'.report # "NULL"
          /\ ScoreOf(attempt', StageOf(resp'.op)) = resp'.score]_vars

\* The spec's example: 1 of 2 MCQ answers right against a passing score of 60.
C4_Witness ==
  /\ resp.op = "mcq_submit" /\ resp.scored
  /\ Len(OrEmpty(attempt.mcq_questions)) = 2
  /\ resp.score = Ratio(50, 1) /\ test.mcq_passing_score = 60
  /\ attempt.mcq_status = "failed" /\ attempt.overall_status = "failed"
  /\ attempt.current_stage = "mcq" /\ attempt.report # "NULL"

\* C5: passing MCQ, coding or SQL sets the stage's status to completed, moves
\* current_stage to the next stage and leaves overall_status in_progress;
\* overall_status becomes completed only by a passing final interview
\* evaluation, which sets interview_status and current_stage to completed.
C5_PassAdvances ==
  [][/\ (/\ resp'.op \in {"mcq_submit", "coding_finish", "sql_finish"}
         /\ resp'.scored /\ resp'.passed)
          => /\ StatusOf(attempt', StageOf(resp'.op)) = "completed"
             /\ attempt'.current_stage = StageOrder[StageIndex(StageOf(resp'.op)) + 1]
             /\ attempt'.overall_status = "in_progress"
     /\ (attempt'.overall_status = "completed" /\ attempt.overall_status # "completed")
          => /\ resp'.op = "interview_answer" /\ resp'.scored /\ resp'.passed
             /\ attempt'.interview_status = "completed"
             /\ attempt'.current_stage = "completed"]_vars

\* C6: a submit/finish of stage S scores and moves the attempt only when
\* current_stage = S and S is pending; called while current_stage # S it
\* changes no stage, status or score.
C6_OnlyCurrentStage ==
  [][resp'.op \in ScoringOps
       => /\ attempt.current_stage # StageOf(resp'.op)
               => Progress(attempt') = Progress(attempt)
          /\ Progress(attempt') # Progress(attempt)
               => /\ attempt.current_stage = StageOf(resp'.op)
                  /\ StatusOf(attempt, StageOf(resp'.op)) = "pending"]_vars

\* C7: resubmitting a stage that is already completed or failed returns the
\* stored score and pass flag, scores nothing and leaves the row unchanged.
C7_ReplayReturnsStored ==
  [][(/\ resp'.op \in ScoringOps
      /\ StatusOf(attempt, StageOf(resp'.op)) \in {"completed", "failed"})
       => /\ attempt' = attempt
          /\ ~resp'.scored
          /\ resp'.score = ScoreOf(attempt, StageOf(resp'.op))
          /\ resp'.passed = (StatusOf(attempt, StageOf(resp'.op)) = "completed")]_vars

\* The column a start handler serves.
StartOps == {"mcq_start", "coding_start", "sql_start"}
ContentOf(a, op) ==
  CASE op = "mcq_start" -> a.mcq_questions [] op = "coding_start" -> a.coding_problems
    [] op = "sql_start" -> a.sql_problems

\* C8: once the content of the MCQ, coding or SQL stage is persisted, a start
\* call returns exactly the persisted content, calls no generator and writes
\* nothing.
C8_StartReturnsPersisted ==
  [][(resp'.op \in StartOps /\ ContentOf(attempt, resp'.op) # None)
       => /\ resp'.content = ContentOf(attempt, resp'.op)
          /\ ~resp'.generated
          /\ attempt' = attempt
          /\ sandbox' = sandbox]_vars

\* A second sql_start after the problems were regenerated returns them.
C8_Witness ==
  /\ resp.op = "sql_start" /\ ~resp.generated
  /\ attempt.sql_problems # None /\ resp.content = attempt.sql_problems
  /\ attempt.mcq_questions # None /\ attempt.coding_problems # None
  /\ nreq >= 4

\* The option index an answer denotes; -1 for no answer.
DenotedIndex(answer) == IF answer = "none" THEN -1 ELSE mcq_answer_index(answer)
CorrectlyAnswered(questions, answers) ==
  Cardinality({i \in 1..Len(questions) :
     i \in DOMAIN answers /\ DenotedIndex(answers[i]) = questions[i]})

\* The items of the stage a scoring handler scores.
ItemsOf(a, stage) ==
  CASE stage = "mcq" -> OrEmpty(a.mcq_questions)
    [] stage = "coding" -> OrEmpty(a.coding_problems)
    [] stage = "sql" -> OrEmpty(a.sql_problems)

\* C10: for MCQ, coding and SQL and every passing score p in 0..100 (0
\* included) the stage passes iff its score >= p; the MCQ score is
\* correctly answered / questions x 100.
C10_PassIffScoreAtLeast ==
  [][(/\ resp'.op \in {"mcq_submit", "coding_finish", "sql_finish"}
      /\ resp'.scored
      /\ ItemsOf(attempt, StageOf(resp'.op)) # <<>>)
       => /\ resp'.passed
               <=> Geq(resp'.score, ConfiguredPassingScore(StageOf(resp'.op)))
          /\ resp'.op = "mcq_submit"
               => resp'.score =
                    Percent(CorrectlyAnswered(OrEmpty(attempt.mcq_questions),
                                              attempt'.mcq_answers[1]),
                            Len(OrEmpty(attempt.mcq_questions)))]_vars

\* C27: every stage before current_stage has status completed, and an attempt
\* whose overall_status is completed has all four stage statuses completed.
C27_EarlierStagesCompleted ==
  /\ \A i \in 1..4 :
       i < StageIndex(attempt.current_stage)
         => StatusOf(attempt, StageOrder[i]) = "completed"
  /\ attempt.overall_status = "completed"
       => \A i \in 1..4 : StatusOf(attempt, StageOrder[i]) = "completed"

\* C28: the persisted MCQ, coding and SQL scores lie in 0..100 and the
\* persisted interview score lies in 0..10, after any sequence of requests.
C28_ScoresInRange ==
  LET Within(r, lo, hi) == r[1] >= lo * r[2] /\ r[1] <= hi * r[2] IN
  /\ Within(attempt.mcq_score, 0, 100)
  /\ Within(attempt.coding_score, 0, 100)
  /\ Within(attempt.sql_score, 0, 100)
  /\ Within(attempt.interview_score, 0, 10)

\* C29: the score sql_finish computes is (SQL problems whose recorded
\* evaluation passed) / (SQL problems) x 100; a problem whose query was judged
\* incorrect does not count.
C29_SqlScoreCountsPassed ==
  [][LET problems == OrEmpty(attempt.sql_problems)
         solved == {i \in 1..Len(problems) :
                      <<problems[i].id, TRUE>> \in attempt.sql_submissions}
     IN (resp'.op = "sql_finish" /\ resp'.scored)
          => /\ resp'.score = Percent(Cardinality(solved), Len(problems))
             /\ attempt'.sql_score = resp'.score]_vars

\* C30: mcq_submit counts a question correct iff the submitted answer, an
\* option index or a letter, denotes the index of correct_answer (index 0
\* included); an unanswered question is never counted.
C30_CorrectIffSameIndex ==
  [][(resp'.op = "mcq_submit" /\ resp'.scored)
       => \A n \in 0..Len(OrEmpty(attempt.mcq_questions)) :
            (CorrectlyAnswered(OrEmpty(attempt.mcq_questions),
                               attempt'.mcq_answers[1]) = n)
              <=> (attempt'.mcq_score =
                     Percent(n, Len(OrEmpty(attempt.mcq_questions))))]_vars

\* ---- start_attempt on the attempts table ----------------------------------
\* The store runs with autocommit; the handler awaits each statement, so the
\* statements of concurrent requests interleave. A request is "new", then
\* "counted" once its SELECT of the pair's attempts returned, then "done"
\* (inserted) or "rejected" (HTTP 400); ids are the rows its SELECT fetched,
\* count their number.
Requests == 1..MaxStudentReqs
StartTests == {[t EXCEPT !.attempt_limit = l] : t \in Tests, l \in {1, 2}}

\* The ids of the pair's rows.
Rows(table) == {i \in 1..Len(table) : table[i] # 0}

\* start_attempt whose SELECT is not followed by the check of the limit.
start_attempt_select_unchecked(r) ==
  /\ reqs[r].pc = "new"
  /\ reqs' = [reqs EXCEPT ![r] =
               [pc |-> "counted", ids |-> Rows(attempts),
                count |-> Cardinality(Rows(attempts))]]
  /\ UNCHANGED attempts

\* start_attempt, up to the check of the limit: the SELECT of the pair's rows.
start_attempt_select(r) ==
  /\ reqs[r].pc = "new"
  /\ LET count == Cardinality(Rows(attempts)) IN
     reqs' = [reqs EXCEPT ![r] =
                IF count >= test.attempt_limit
                THEN [pc |-> "rejected", ids |-> Rows(attempts), count |-> count]
                ELSE [pc |-> "counted", ids |-> Rows(attempts), count |-> count]]
  /\ UNCHANGED attempts

\* start_attempt, the INSERT with attempt_number = len(attempts) + 1.
start_attempt_insert(r) ==
  /\ reqs[r].pc = "counted"
  /\ attempts' = Append(attempts, reqs[r].count + 1)
  /\ reqs' = [reqs EXCEPT ![r].pc = "done"]

\* DELETE /admin/submission/{attempt_id}
admin_delete_submission(id) ==
  /\ id \in Rows(attempts)
  /\ attempts' = [attempts EXCEPT ![id] = 0]
  /\ UNCHANGED reqs

InitStart ==
  /\ test \in StartTests
  /\ attempts = <<>>
  /\ reqs = [r \in Requests |-> [pc |-> "new", ids |-> {}, count |-> 0]]
  /\ attempt = NewAttempt /\ sandbox = create_sandbox(NoSandbox)
  /\ resp = NoResp /\ nreq = 0 /\ query = <<>> /\ executed = {} /\ call = NoCall
  /\ service = "any" /\ logs = NoLogs

\* The rest of the state is not touched by these handlers.
StartFrame ==
  UNCHANGED <<test, attempt, sandbox, resp, nreq, query, executed, call, service,
              logs>>

StartSelect == StartFrame /\ \E r \in Requests : start_attempt_select(r)
StartInsert == StartFrame /\ \E r \in Requests : start_attempt_insert(r)
AdminDelete ==
  StartFrame /\ \E id \in 1..MaxStudentReqs : admin_delete_submission(id)

NextStart ==
  \/ StartSelect
  \/ StartInsert
  \/ AdminDelete

SpecStart == InitStart /\ [][NextStart]_vars

\* C3: for every (test, student) pair the number of attempt rows is at most
\* the test's attempt_limit, whatever start_attempt requests run, concurrent
\* ones included.
C3_AttemptsWithinLimit == Cardinality(Rows(attempts)) <= test.attempt_limit

\* ---- eligibility: the listing and start_attempt ----------------------------
\* GET /student/available, for the test and the student of the model: the
\* attempt row with id 1 is the variable attempt; the other rows of the pair
\* have not been played and are in progress.
student_available ==
  LET my_attempts == Rows(attempts) IN
  [ attempts_used |-> Cardinality(my_attempts),
    can_attempt |->
      /\ Cardinality(my_attempts) < test.attempt_limit
      /\ ~\E a \in my_attempts : a = 1 /\ attempt.overall_status = "completed" ]

\* The student answers an interview question of the attempt with id 1.
FirstAttemptInterviewAnswer ==
  /\ 1 \in Rows(attempts)
  /\ nreq < MaxRequests
  /\ nreq' = nreq + 1
  /\ \E s \in TurnScores, rep \in Reports : interview_answer(s, rep)
  /\ UNCHANGED <<test, sandbox, attempts, reqs, query, executed, call, service, logs>>

NextAvailable ==
  \/ StartSelect
  \/ StartInsert
  \/ AdminDelete
  \/ FirstAttemptInterviewAnswer

SpecAvailable == InitStart /\ [][NextAvailable]_vars

\* C36: whenever the listing reports can_attempt = false for the test and the
\* student (limit used up, or one of the student's attempts completed), a
\* start_attempt of the pair is rejected and inserts no attempt.
C36_UnavailableMeansRejected ==
  [][\A r \in Requests :
       (/\ reqs[r].pc = "new" /\ reqs'[r].pc # "new"
        /\ ~student_available.can_attempt)
         => reqs'[r].pc = "rejected"]_vars

\* ---- sql_run: the table allow-list ----------------------------------------
\* A query is the list of its tokens, each <<kind, n, text>>: a keyword
\* ("kw"), a run of white space ("ws"), a symbol ("sym"), the identifier
\* st{n}_{text} ("st") or another identifier ("id").
Kw(word) == <<"kw", 0, word>>
Ws == <<"ws", 0, " ">>
Sym(c) == <<"sym", 0, c>>
Backquote == Sym("backquote")
PlainName(name) == <<"id", 0, name>>
IsIdentifier(tok) == tok[1] \in {"st", "id"}

\* _sandbox_names: the four table names st{test_id}_{t}.
sandbox_names(test_id) == {<<"st", test_id, BASE_TABLES[i]>> : i \in 1..4}

\* The queries a client submits: SELECT * FROM, or DELETE FROM, one table or
\* two, the second after a comma or a JOIN, each bare or in backquotes; the
\* tables are sandbox tables of test 1, one of test 2, and the users table.
TableNames ==
  {<<"st", 1, "employees">>, <<"st", 1, "orders">>, <<"st", 2, "employees">>,
   PlainName("users")}
TableRefs == {<<Ws, t>> : t \in TableNames}
               \cup {<<Ws, Backquote, t, Backquote>> : t \in TableNames}
QueryHeads == {<<Kw("SELECT"), Ws, Sym("*"), Ws, Kw("FROM")>>,
               <<Kw("DELETE"), Ws, Kw("FROM")>>}
Separators == {<<Sym(",")>>, <<Ws, Kw("JOIN")>>}
QueryTexts ==
  {<<>>} \cup {h \o r : h \in QueryHeads, r \in TableRefs}
         \cup {h \o r1 \o s \o r2 :
                 h \in QueryHeads, r1 \in TableRefs, s \in Separators, r2 \in TableRefs}
\* attemptId of the body: none, the attempt of test 1, or an unknown id.
AttemptIds == {0, 1, 9}
AttemptTestId(attempt_id) == IF attempt_id = 1 THEN test.id ELSE 0

\* The tables the store reads when it executes the query: every table of the
\* FROM list and of the joins, quoted or not.
TablesRead(tokens) == {tokens[i] : i \in {j \in 1..Len(tokens) : IsIdentifier(tokens[j])}}

\* re.finditer(r"(?:from|join)\s+([a-zA-Z_][a-zA-Z0-9_]*)", query, re.IGNORECASE):
\* the identifiers that follow FROM or JOIN and white space.
referenced(tokens) ==
  {tokens[i + 2] : i \in {j \in 1..(Len(tokens) - 2) :
       /\ tokens[j] \in {Kw("FROM"), Kw("JOIN")}
       /\ tokens[j + 1] = Ws
       /\ IsIdentifier(tokens[j + 2])}}

SqlRunResp(error) == [NoResp EXCEPT !.op = "sql_run", !.ok = FALSE, !.error = error]

\* sql_run without the startswith("SELECT") check.
sql_run_any_statement(attempt_id, tokens) ==
  LET allowed == IF attempt_id # 0 /\ AttemptTestId(attempt_id) # 0
                 THEN sandbox_names(AttemptTestId(attempt_id)) ELSE {}
      bad == referenced(tokens) \ allowed
  IN IF tokens = <<>>
     THEN resp' = SqlRunResp("empty_query") /\ executed' = {}
     ELSE IF allowed = {}
     THEN resp' = SqlRunResp("no_test_context") /\ executed' = {}
     ELSE IF bad # {}
     THEN /\ resp' = [SqlRunResp("access_denied") EXCEPT
                        !.content = Some([allowed |-> allowed, blocked |-> bad])]
          /\ executed' = {}
     ELSE /\ resp' = [NoResp EXCEPT !.op = "sql_run"]
          /\ executed' = TablesRead(tokens)

\* POST /sql/run
sql_run(attempt_id, tokens) ==
  LET allowed == IF attempt_id # 0 /\ AttemptTestId(attempt_id) # 0
                 THEN sandbox_names(AttemptTestId(attempt_id)) ELSE {}
      bad == referenced(tokens) \ allowed
  IN IF tokens = <<>>
     THEN resp' = SqlRunResp("empty_query") /\ executed' = {}
     ELSE IF tokens[1] # Kw("SELECT")
     THEN resp' = SqlRunResp("only_select") /\ executed' = {}
     ELSE IF allowed = {}
     THEN resp' = SqlRunResp("no_test_context") /\ executed' = {}
     ELSE IF bad # {}
     THEN /\ resp' = [SqlRunResp("access_denied") EXCEPT
                        !.content = Some([allowed |-> allowed, blocked |-> bad])]
          /\ executed' = {}
     ELSE /\ resp' = [NoResp EXCEPT !.op = "sql_run"]
          /\ executed' = TablesRead(tokens)

InitSqlRun ==
  /\ test \in Tests
  /\ attempt = NewAttempt /\ sandbox = create_sandbox(NoSandbox)
  /\ resp = NoResp /\ nreq = 0 /\ attempts = <<>> /\ reqs = <<>>
  /\ query \in [attemptId : AttemptIds, tokens : QueryTexts]
  /\ executed = {} /\ call = NoCall /\ service = "any" /\ logs = NoLogs

SqlRun ==
  /\ resp.op = "none"
  /\ sql_run(query.attemptId, query.tokens)
  /\ UNCHANGED <<test, attempt, sandbox, nreq, attempts, reqs, query, call, service,
                 logs>>

NextSqlRun == SqlRun

SpecSqlRun == InitSqlRun /\ [][NextSqlRun]_vars

\* C9: sql_run executes a query only if every table it reads is one of the
\* four sandbox tables of the attempt's own test; a SELECT that names another
\* table is rejected before execution with the allowed and blocked names.
C9_OnlySandboxTablesRead ==
  resp.op = "sql_run" =>
    /\ executed \subseteq sandbox_names(test.id)
    /\ (/\ query.tokens # <<>> /\ query.tokens[1] = Kw("SELECT")
        /\ query.attemptId = 1
        /\ ~(TablesRead(query.tokens) \subseteq sandbox_names(test.id)))
         => /\ resp.error = "access_denied"
            /\ executed = {}
            /\ resp.content[1].allowed = sandbox_names(test.id)
            /\ resp.content[1].blocked =
                 TablesRead(query.tokens) \ sandbox_names(test.id)

\* C21: sql_run executes nothing for a query that does not start with SELECT
\* (an empty one included) and nothing when the attempt's test cannot be
\* determined (no attemptId, or no such attempt); each such request returns an
\* error value, and the sandbox tables and the attempt rows stay as they were.
C21_RejectedRunsNothing ==
  (/\ resp.op = "sql_run"
   /\ \/ query.tokens = <<>>
      \/ query.tokens[1] # Kw("SELECT")
      \/ AttemptTestId(query.attemptId) = 0)
    => /\ executed = {}
       /\ ~resp.ok
       /\ resp.error \in {"empty_query", "only_select", "no_test_context"}
       /\ sandbox = create_sandbox(NoSandbox)
       /\ attempt = NewAttempt /\ attempts = <<>>

\* A DELETE on a sandbox table of the attempt's own test was rejected.
C21_Witness ==
  /\ resp.op = "sql_run" /\ resp.error = "only_select"
  /\ query.attemptId = 1
  /\ query.tokens[1] = Kw("DELETE")
  /\ TablesRead(query.tokens) \subseteq sandbox_names(test.id)
  /\ executed = {}

\* C33: the sandbox table names of distinct tests are disjoint, and sql_run
\* for an attempt of one test rejects, before execution, every query that
\* names a sandbox table of another test.
C33_OtherTestsTablesRejected ==
  /\ \A a, b \in 1..3 : a # b => sandbox_names(a) \cap sandbox_names(b) = {}
  /\ (/\ resp.op = "sql_run"
      /\ query.attemptId = 1
      /\ \E t \in TablesRead(query.tokens) : t[1] = "st" /\ t[2] # test.id)
       => /\ ~resp.ok
          /\ executed = {}

\* ---- the interview turns ---------------------------------------------------
\* C11: with interview_count = N, an answer that is not the N-th only appends
\* a turn and changes no stage, status or score; the pass/fail evaluation is
\* run by the N-th answer and by no other, an answer after the N-th included.
C11_EvaluationOnlyAtNth ==
  [][resp'.op = "interview_answer"
       => /\ Len(attempt'.interview_qa) = Len(attempt.interview_qa) + 1
          /\ resp'.scored <=> (Len(attempt'.interview_qa) = test.interview_count)
          /\ ~resp'.scored => Progress(attempt') = Progress(attempt)]_vars

\* The arithmetic mean of the recorded turn scores.
MeanScore(qa) == Ratio(SumSeq(qa), Len(qa))

\* C12: the N-th interview answer (N = interview_count) moves the attempt to
\* completed if the mean of the N turn scores is >= interview_passing_score
\* and to failed otherwise, for every configured passing score, 0 included;
\* the stored interview_score is that mean.
C12_InterviewVerdictByMean ==
  [][(/\ resp'.op = "interview_answer"
      /\ Len(attempt'.interview_qa) = test.interview_count)
       => /\ attempt'.interview_score = MeanScore(attempt'.interview_qa)
          /\ attempt'.overall_status =
               IF Geq(MeanScore(attempt'.interview_qa), test.interview_passing_score)
               THEN "completed" ELSE "failed"]_vars

\* ---- start_attempt at the limit -------------------------------------------
\* C13: a start_attempt call made when the pair already has attempt_limit
\* attempts is rejected (HTTP 400) and creates or changes no attempt row, then
\* or later; with attempt_limit = 1 the second call of the pair is rejected.
C13_LimitReachedRejects ==
  [][\A r \in Requests :
       /\ (/\ reqs[r].pc = "new" /\ reqs'[r].pc # "new"
           /\ Cardinality(Rows(attempts)) >= test.attempt_limit)
            => reqs'[r].pc = "rejected" /\ attempts' = attempts
       /\ reqs[r].pc = "rejected" => reqs'[r] = reqs[r]
       /\ (reqs[r].pc # "counted" /\ reqs'[r] # reqs[r])
            => attempts' = attempts]_vars

\* attempt_limit = 1: one call has created the attempt, a later one was rejected.
C13_Witness ==
  /\ test.attempt_limit = 1 /\ attempts = <<1>>
  /\ \E r1, r2 \in Requests :
       /\ reqs[r1].pc = "done"
       /\ reqs[r2].pc = "rejected" /\ reqs[r2].count = 1

\* C14: a start_attempt served with the pair's rows at its INSERT being the
\* rows its SELECT fetched (no other call in between) creates the attempt with
\* attempt_number = prior attempts + 1, a number greater than that of every
\* attempt of the pair that exists (so the numbers stay pairwise distinct),
\* whatever start_attempt and admin_delete_submission calls came before.
C14_AttemptNumbersIncrease ==
  [][\A r \in Requests :
       (/\ reqs[r].pc = "counted" /\ reqs'[r].pc = "done"
        /\ reqs[r].ids = Rows(attempts))
         => /\ attempts'[Len(attempts')] = Cardinality(Rows(attempts)) + 1
            /\ \A i \in Rows(attempts) : attempts[i] < attempts'[Len(attempts')]]_vars

\* ---- _create_sandbox and _drop_sandbox, statement by statement -------------
\* The calls of one test id run one after another; each awaited statement is a
\* step and is committed on its own (autocommit), so a call that raises leaves
\* what its earlier statements did. call.pc is the statement _create_sandbox
\* is at (0: no call in progress; 1..4: CREATE TABLE IF NOT EXISTS; 5: SELECT
\* COUNT(*); 6..9: INSERT), call.had_sql what delete_test has read as had_sql
\* ("yes" or "no", "none" before it runs), call.drop the number of tables its _drop_sandbox
\* has dropped.
MaxSandboxCalls == 3
InsertOrder == <<"departments", "employees", "projects", "orders">>
AllSeeded == [t \in DOMAIN NoSandbox |-> "seeded"]

\* What a call of _create_sandbox ends with: a return (seeded says whether it
\* ran the INSERTs) or an exception.
SandboxReturn(seeded) ==
  [NoResp EXCEPT !.op = "create_sandbox", !.generated = seeded]
SandboxRaise(error) ==
  [NoResp EXCEPT !.op = "create_sandbox", !.ok = FALSE, !.error = error]

\* One statement of _create_sandbox without the "if row[cnt] == 0" guard.
create_sandbox_statement_unguarded ==
  LET pc == call.pc IN
  /\ pc \in 1..9
  /\ IF pc \in 1..4
     THEN /\ sandbox' = [sandbox EXCEPT ![BASE_TABLES[pc]] =
                           IF @ = "absent" THEN "empty" ELSE @]
          /\ call' = [call EXCEPT !.pc = pc + 1]
          /\ UNCHANGED resp
     ELSE IF pc = 5
     THEN /\ call' = [call EXCEPT !.pc = 6]
          /\ UNCHANGED <<sandbox, resp>>
     ELSE IF sandbox[InsertOrder[pc - 5]] = "empty"
     THEN /\ sandbox' = [sandbox EXCEPT ![InsertOrder[pc - 5]] = "seeded"]
          /\ call' = [call EXCEPT !.pc = IF pc = 9 THEN 0 ELSE pc + 1]
          /\ resp' = IF pc = 9 THEN SandboxReturn(TRUE) ELSE resp
     ELSE /\ call' = [call EXCEPT !.pc = 0]
          /\ resp' = SandboxRaise("duplicate_key")
          /\ UNCHANGED sandbox

\* One statement of _create_sandbox on tables without primary keys: an INSERT
\* into a table that holds the seed rows adds them once more.
create_sandbox_statement_no_primary_key ==
  LET pc == call.pc IN
  /\ pc \in 1..9
  /\ IF pc \in 1..4
     THEN /\ sandbox' = [sandbox EXCEPT ![BASE_TABLES[pc]] =
                           IF @ = "absent" THEN "empty" ELSE @]
          /\ call' = [call EXCEPT !.pc = pc + 1]
          /\ UNCHANGED resp
     ELSE IF pc = 5
     THEN /\ call' = [call EXCEPT !.pc = IF sandbox["employees"] = "empty" THEN 6 ELSE 0]
          /\ resp' = IF sandbox["employees"] = "empty" THEN resp ELSE SandboxReturn(FALSE)
          /\ UNCHANGED sandbox
     ELSE /\ sandbox' = [sandbox EXCEPT ![InsertOrder[pc - 5]] =
                           IF @ = "empty" THEN "seeded" ELSE "duplicated"]
          /\ call' = [call EXCEPT !.pc = IF pc = 9 THEN 0 ELSE pc + 1]
          /\ resp' = IF pc = 9 THEN SandboxReturn(TRUE) ELSE resp

\* One statement of _create_sandbox.
create_sandbox_statement ==
  LET pc == call.pc IN
  /\ pc \in 1..9
  /\ IF pc \in 1..4
     THEN /\ sandbox' = [sandbox EXCEPT ![BASE_TABLES[pc]] =
                           IF @ = "absent" THEN "empty" ELSE @]
          /\ call' = [call EXCEPT !.pc = pc + 1]
          /\ UNCHANGED resp
     ELSE IF pc = 5
     THEN /\ call' = [call EXCEPT !.pc = IF sandbox["employees"] = "empty" THEN 6 ELSE 0]
          /\ resp' = IF sandbox["employees"] = "empty" THEN resp ELSE SandboxReturn(FALSE)
          /\ UNCHANGED sandbox
     ELSE IF sandbox[InsertOrder[pc - 5]] = "empty"
     THEN /\ sandbox' = [sandbox EXCEPT ![InsertOrder[pc - 5]] = "seeded"]
          /\ call' = [call EXCEPT !.pc = IF pc = 9 THEN 0 ELSE pc + 1]
          /\ resp' = IF pc = 9 THEN SandboxReturn(TRUE) ELSE resp
     ELSE /\ call' = [call EXCEPT !.pc = 0]
          /\ resp' = SandboxRaise("duplicate_key")
          /\ UNCHANGED sandbox

\* One DROP TABLE IF EXISTS of _drop_sandbox, in the order of BASE_TABLES;
\* delete_test returns after the last one.
drop_sandbox_statement ==
  /\ call.drop \in 0..3
  /\ sandbox' = [sandbox EXCEPT ![BASE_TABLES[call.drop + 1]] = "absent"]
  /\ call' = [call EXCEPT !.drop = call.drop + 1]
  /\ resp' = [NoResp EXCEPT !.op = IF call.drop = 3 THEN "delete_test"
                                  ELSE "drop_sandbox"]

\* The test is stored with sql_count 2 or 0, its sandbox not yet provisioned;
\* the student has started an attempt of it.
InitSandbox ==
  /\ test \in {[t EXCEPT !.sql_count = c] : t \in Tests, c \in {0, 2}}
  /\ attempt = NewAttempt
  /\ sandbox = NoSandbox
  /\ resp = NoResp
  /\ nreq = 0
  /\ attempts = <<1>>
  /\ reqs = <<>> /\ query = <<>> /\ executed = {}
  /\ call = NoCall /\ service = "any" /\ logs = NoLogs

SandboxFrame ==
  UNCHANGED <<test, attempt, attempts, reqs, query, executed, service, logs>>

\* create_test (sql_count > 0) or sql_start calls _create_sandbox.
CreateSandboxCall ==
  /\ SandboxFrame
  /\ call.pc = 0 /\ call.drop \in {0, 4}
  /\ nreq < MaxSandboxCalls
  /\ nreq' = nreq + 1
  /\ call' = [call EXCEPT !.pc = 1]
  /\ UNCHANGED <<sandbox, resp>>

CreateSandboxStatement ==
  SandboxFrame /\ create_sandbox_statement /\ UNCHANGED nreq

\* The store fails the statement the call is at (connection lost): the call raises.
CreateSandboxStoreError ==
  /\ SandboxFrame
  /\ call.pc \in 1..9
  /\ call' = [call EXCEPT !.pc = 0]
  /\ resp' = SandboxRaise("store_unavailable")
  /\ UNCHANGED <<sandbox, nreq>>

\* DELETE /{test_id} up to the call of _drop_sandbox: had_sql is read from the
\* stored sql_count, the attempts of the test and the test are deleted, and
\* without had_sql the handler returns.
DeleteTest ==
  LET had_sql == OrDefault(test.sql_count, 0) > 0 IN
  /\ call.pc = 0 /\ call.had_sql = "none"
  /\ attempts' = [i \in DOMAIN attempts |-> 0]
  /\ call' = [call EXCEPT !.had_sql = IF had_sql THEN "yes" ELSE "no"]
  /\ resp' = IF had_sql THEN resp ELSE [NoResp EXCEPT !.op = "delete_test"]
  /\ UNCHANGED <<test, attempt, sandbox, nreq, reqs, query, executed, service, logs>>

\* delete_test drops the sandbox if had_sql; a failing DROP ends the loop, and
\* delete_test returns success all the same.
DropSandboxStatement ==
  /\ SandboxFrame /\ call.pc = 0 /\ call.had_sql = "yes"
  /\ drop_sandbox_statement /\ UNCHANGED nreq

DropSandboxStoreError ==
  /\ SandboxFrame
  /\ call.pc = 0 /\ call.had_sql = "yes" /\ call.drop \in 1..3
  /\ call' = [call EXCEPT !.drop = 4]
  /\ resp' = [NoResp EXCEPT !.op = "delete_test", !.error = "drop_sandbox_warning"]
  /\ UNCHANGED <<sandbox, nreq>>

NextSandbox ==
  \/ CreateSandboxCall
  \/ CreateSandboxStatement
  \/ CreateSandboxStoreError
  \/ DeleteTest
  \/ DropSandboxStatement
  \/ DropSandboxStoreError

SpecSandbox == InitSandbox /\ [][NextSandbox]_vars

\* C15: a call of create_sandbox that follows a returned call for the same
\* test id leaves the store as that call left it (no statement of it creates a
\* table or inserts a row) and returns; a call that seeded returns with exactly
\* the four tables, each holding the seed rows.
C15_CreateSandboxIdempotent ==
  [][/\ (resp.op = "create_sandbox" /\ resp.ok /\ call.pc \in 1..9 /\ call' # call)
          => /\ sandbox' = sandbox
             /\ call'.pc = 0
                  => /\ resp'.op = "create_sandbox"
                     /\ resp'.ok \/ resp'.error = "store_unavailable"
                     /\ ~resp'.generated
     /\ (call.pc # 0 /\ call'.pc = 0 /\ resp'.ok /\ resp'.generated)
          => sandbox' = AllSeeded]_vars

\* The second call returned without seeding, the first one's tables in place.
C15_Witness ==
  /\ resp.op = "create_sandbox" /\ resp.ok /\ ~resp.generated
  /\ call.pc = 0 /\ nreq = 2 /\ call.drop = 0
  /\ sandbox = AllSeeded

\* ---- concurrent calls of _create_sandbox ------------------------------------
\* Each statement is awaited, so the event loop can run the statements of
\* another call of _create_sandbox for the same test id in between: the call
\* in progress is suspended at its statement (reqs holds that statement) and
\* the suspended one, if any, is resumed; with no call suspended a new call
\* can start.
SandboxSwitch ==
  /\ call.pc # 0 \/ reqs # <<>>
  /\ call' = [call EXCEPT !.pc = IF reqs = <<>> THEN 0 ELSE reqs[1]]
  /\ reqs' = IF call.pc = 0 THEN <<>> ELSE <<call.pc>>
  /\ UNCHANGED <<test, attempt, sandbox, resp, nreq, attempts, query, executed,
                 service, logs>>

NextSandboxRace == CreateSandboxCall \/ CreateSandboxStatement \/ SandboxSwitch

SpecSandboxRace == InitSandbox /\ [][NextSandboxRace]_vars

\* C26: once the calls of create_sandbox for a test id have finished, whatever
\* the interleaving of their statements, the four tables exist and each holds
\* exactly the seed rows: none duplicated, none missing.
C26_ConcurrentCreateSeedsOnce ==
  (nreq >= 1 /\ call.pc = 0 /\ reqs = <<>>) => sandbox = AllSeeded

\* Two calls ran at once: both found employees empty, one inserted the seed
\* rows, the other's first INSERT raised on the primary key and it ended last.
C26_Witness ==
  /\ nreq = 2 /\ call.pc = 0 /\ reqs = <<>>
  /\ resp = SandboxRaise("duplicate_key")
  /\ sandbox = AllSeeded

\* C34: after a call of create_sandbox stopped with some but not all tables
\* seeded, a call that the store does not interrupt completes without error and
\* leaves all four tables holding exactly the seed rows.
C34_SeedingRecovers ==
  [][(/\ call.pc \in 1..9 /\ call'.pc = 0
      /\ call.drop = 0
      /\ resp'.error # "store_unavailable")
       => /\ resp'.error = "none"
          /\ sandbox' = AllSeeded]_vars

\* C22: when delete_test has returned (no statement of it or of an earlier
\* create_sandbox failed), none of the four sandbox tables of the test exists
\* and no attempt row of the test remains, whether the sandbox was created by
\* create_test or by sql_start and whatever the stored sql_count.
C22_DeleteRemovesSandbox ==
  [][(/\ call.pc = 0 /\ call'.pc = 0 /\ call' # call
      /\ resp'.op = "delete_test" /\ resp'.error = "none"
      /\ \A t \in DOMAIN sandbox : sandbox[t] \in {"absent", "seeded"})
       => /\ sandbox' = NoSandbox
          /\ Rows(attempts') = {}]_vars

\* ---- the cached report ------------------------------------------------------
\* The step writes a terminal overall_status: a stage scored as failed, or the
\* interview scored as passed.
TerminalTransition ==
  resp'.scored /\ (~resp'.passed \/ resp'.op = "interview_answer")

AiFailures == {"no_keys", "keys_failed", "unparseable", "wrong_type", "bad_fields"}
AiOutcomes == AiFailures \cup {"valid"}

\* cerebras_chat raises RuntimeError without keys and the last error when every
\* key has failed.
cerebras_raises(outcome) == outcome \in {"no_keys", "keys_failed"}

\* An object of the service that lacks the fields of a coding problem;
\* generate_coding_problems gives it the id of its position.
NoFields(id) == -id

\* generate_mcq_questions up to its return: the list of the questions that
\* validate. The except branch, a None of parse_json, a non-list and questions
\* without text, four options or correct_answer all leave it empty.
mcq_service_answer(outcome) == IF outcome = "valid" THEN <<1, 0>> ELSE <<>>

\* generate_coding_problems up to its return: a non-empty list is kept whatever
\* its objects hold, each given an id.
coding_service_answer(outcome) ==
  CASE outcome = "valid" -> <<1>>
    [] outcome = "bad_fields" -> <<NoFields(1)>>
    [] OTHER -> <<>>

\* generate_sql_problems up to its return: a non-empty list is kept as it is;
\* an object without id and reference_query has id 0 here.
sql_service_answer(outcome) ==
  CASE outcome = "valid" -> <<SqlProblem(1, "sandbox")>>
    [] outcome = "bad_fields" -> <<SqlProblem(0, "none")>>
    [] OTHER -> <<>>

\* generate_interview_question up to its return: data.get("question") of a
\* list raises inside the try, a missing question is falsy.
interview_service_answer(outcome) ==
  IF outcome = "valid" THEN <<"service">> ELSE <<>>

\* evaluate_interview_answer: the judge's score if it is a number, else 5.
evaluate_interview_answer(outcome, judged) ==
  IF outcome = "valid" THEN judged ELSE 5

\* evaluate_sql_query: the judge's verdict if "passed" is a bool, else False.
evaluate_sql_query(outcome, verdict) ==
  IF outcome = "valid" THEN verdict ELSE FALSE

\* Test definitions for this part: the skills list may be empty, and more
\* questions may be asked for than the fallback holds for one skill.
AiTests ==
  { [t EXCEPT !.skills = s, !.mcq_count = c] :
      t \in Tests, s \in {<<>>, <<"python">>}, c \in {2, 4} }

\* The service answers every call of the behaviour in the same way.
InitClient ==
  /\ test \in AiTests
  /\ service \in AiOutcomes
  /\ attempt = NewAttempt
  /\ sandbox = create_sandbox(NoSandbox)
  /\ resp = NoResp
  /\ nreq = 0
  /\ attempts = <<>> /\ reqs = <<>> /\ query = <<>> /\ executed = {}
  /\ call = NoCall /\ logs = NoLogs

\* A client that follows the pipeline: it works on the current stage of an
\* in-progress attempt, and submits what the start call has handed out.
ClientAt(stage) ==
  /\ attempt.overall_status = "in_progress"
  /\ attempt.current_stage = stage
  /\ UNCHANGED <<test, nreq, attempts, reqs, query, executed, call, service, logs>>

ClientMcqStart ==
  ClientAt("mcq") /\ mcq_start(mcq_service_answer(service)) /\ UNCHANGED sandbox
ClientMcqSubmit ==
  /\ ClientAt("mcq") /\ attempt.mcq_questions # None
  /\ \E answers \in McqPayloads, rep \in Reports : mcq_submit(answers, rep)
  /\ UNCHANGED sandbox
ClientCodingStart ==
  /\ ClientAt("coding") /\ coding_start(coding_service_answer(service))
  /\ UNCHANGED sandbox
ClientCodingSubmit ==
  /\ ClientAt("coding") /\ attempt.coding_problems # None
  /\ \E id \in ProblemIds : coding_submit(id)
  /\ UNCHANGED sandbox
ClientCodingFinish ==
  /\ ClientAt("coding") /\ attempt.coding_problems # None
  /\ \E rep \in Reports : coding_finish(rep)
  /\ UNCHANGED sandbox
ClientSqlStart ==
  ClientAt("sql") /\ sql_start(sql_service_answer(service))
ClientSqlEvaluate ==
  /\ ClientAt("sql") /\ attempt.sql_problems # None
  /\ \E id \in ProblemIds, verdict \in BOOLEAN :
       sql_evaluate(id, TRUE, evaluate_sql_query(service, verdict))
  /\ UNCHANGED sandbox
ClientSqlFinish ==
  /\ ClientAt("sql") /\ attempt.sql_problems # None
  /\ \E rep \in Reports : sql_finish(rep)
  /\ UNCHANGED sandbox
ClientInterviewStart ==
  /\ ClientAt("interview") /\ interview_start(interview_service_answer(service))
  /\ UNCHANGED sandbox
\* The answer is to the question the last response carried.
ClientInterviewAnswer ==
  /\ ClientAt("interview")
  /\ resp.op \in {"interview_start", "interview_answer"} /\ resp.generated
  /\ \E s \in TurnScores, rep \in Reports :
       interview_answer(evaluate_interview_answer(service, s), rep)
  /\ UNCHANGED sandbox

NextClient ==
  \/ ClientMcqStart \/ ClientMcqSubmit
  \/ ClientCodingStart \/ ClientCodingSubmit \/ ClientCodingFinish
  \/ ClientSqlStart \/ ClientSqlEvaluate \/ ClientSqlFinish
  \/ ClientInterviewStart \/ ClientInterviewAnswer

\* uvicorn serves every request it receives, and the client keeps sending the
\* requests of its current stage: each of them is weakly fair.
SpecClient ==
  /\ InitClient /\ [][NextClient]_vars
  /\ WF_vars(ClientMcqStart) /\ WF_vars(ClientMcqSubmit)
  /\ WF_vars(ClientCodingStart) /\ WF_vars(ClientCodingFinish)
  /\ WF_vars(ClientSqlStart) /\ WF_vars(ClientSqlFinish)
  /\ WF_vars(ClientInterviewStart) /\ WF_vars(ClientInterviewAnswer)

\* The content a start call generates when the service gives nothing.
FallbackContent(op) ==
  CASE op = "mcq_start" ->
         generate_fallback_mcq(test.skills, OrDefault(test.mcq_count, 10))
    [] op = "coding_start" ->
         generate_fallback_coding(OrDefault(test.coding_count, 3))
    [] op = "sql_start" -> default_sql_problems(OrDefault(test.sql_count, 3))
    [] op = "interview_start" ->
         <<fallback_question(test.skills, Len(attempt.interview_qa) + 1)>>

GenerationOps == StartOps \cup {"interview_start"}

\* C17: when every call to the AI service errors, mcq_start, coding_start,
\* sql_start and interview_start each return non-empty content, the same for
\* the same test configuration (the fallback of that configuration), whatever
\* the skills list and the item counts.
C17_FallbackNonEmpty ==
  [][(cerebras_raises(service) /\ resp'.op \in GenerationOps /\ resp'.generated)
       => /\ resp'.content # None
          /\ Len(resp'.content[1]) >= 1
          /\ resp'.content[1] = FallbackContent(resp'.op)]_vars

\* C18: when the AI service fails (no key, every key failing, an answer that
\* does not parse or has the wrong shape), no generation or evaluation
\* operation surfaces an error and each returns its fallback value: a start
\* call the fallback content, a SQL evaluation the verdict "not passed", and an
\* interview turn is recorded with the score 5.
C18_FailureGivesFallback ==
  [][(service \in AiFailures)
       => /\ (resp'.op \in GenerationOps /\ resp'.generated)
               => /\ resp'.ok
                  /\ resp'.content = Some(FallbackContent(resp'.op))
          /\ resp'.op = "sql_evaluate" => ~resp'.passed
          /\ resp'.op = "interview_answer"
               => /\ resp'.ok
                  /\ attempt'.interview_qa = Append(attempt.interview_qa, 5)]_vars

\* C19: when every call to the AI service fails, an in-progress attempt whose
\* client keeps starting and submitting the current stage, its requests served
\* fairly, eventually has overall_status completed or failed.
C19_EventuallyTerminal ==
  <>(service \notin AiFailures \/ attempt.overall_status \in {"failed", "completed"})

\* With no key configured the client has gone through the four stages on
\* fallback content and fallback judgements, and the attempt is completed.
C19_Witness ==
  /\ cerebras_raises(service)
  /\ resp.op = "interview_answer" /\ resp.finished
  /\ attempt.overall_status = "completed"
  /\ attempt.interview_qa = <<5, 5>>

\* ---- two requests on one attempt, statement by statement --------------------
\* mcq_start, mcq_submit and coding_submit each SELECT the attempt row, compute
\* from the row they fetched, and UPDATE the columns they name; the statements
\* of concurrent requests interleave at the awaits. A request is new, has read
\* (seen is the row it fetched) or is done (ret is what it returned); the
\* requests are numbered in the order of their SELECTs.
MaxRaceReqs == 3

InitRace ==
  /\ test \in Tests
  /\ attempt = NewAttempt
  /\ sandbox = create_sandbox(NoSandbox)
  /\ reqs = [r \in 1..MaxRaceReqs |->
               [pc |-> "new", op |-> "none", seen |-> NewAttempt,
                ai |-> <<>>, answers |-> [q \in QuestionIds |-> "none"],
                id |-> 0, ret |-> NoResp]]
  /\ resp = NoResp /\ nreq = 0
  /\ attempts = <<>> /\ query = <<>> /\ executed = {}
  /\ call = NoCall /\ service = "any" /\ logs = NoLogs

\* The handler up to its UPDATE: the SELECT of the row, and the return of
\* mcq_start when the row has questions, of mcq_submit when the row's stage is
\* completed or no longer current.
RaceRead ==
  /\ \E r \in 1..MaxRaceReqs, op \in {"mcq_start", "mcq_submit", "coding_submit"},
        ai \in McqAiAnswers, answers \in ProctoredPayloads, id \in ProblemIds :
       LET returns ==
             \/ op = "mcq_start" /\ Truthy(attempt.mcq_questions)
             \/ op = "mcq_submit" /\ \/ attempt.mcq_status = "completed"
                                     \/ attempt.current_stage # "mcq"
           ret == IF op = "mcq_start"
                  THEN [NoResp EXCEPT !.op = op, !.content = attempt.mcq_questions]
                  ELSE [NoResp EXCEPT !.op = op, !.score = attempt.mcq_score,
                          !.passed = Geq(attempt.mcq_score, test.mcq_passing_score)]
       IN /\ reqs[r].pc = "new"
          /\ \A q \in 1..(r - 1) : reqs[q].pc # "new"
          /\ op # "mcq_start" => ai = <<>>
          /\ op # "mcq_submit" => answers = reqs[r].answers
          /\ reqs' = [reqs EXCEPT ![r] =
                        [pc |-> IF returns THEN "done" ELSE "read", op |-> op,
                         seen |-> attempt, ai |-> ai, answers |-> answers,
                         id |-> IF op = "coding_submit" THEN id ELSE 0,
                         ret |-> IF returns THEN ret ELSE NoResp]]
          /\ resp' = IF returns THEN ret ELSE resp
  /\ UNCHANGED <<test, attempt, sandbox, nreq, attempts, query, executed, call,
                 service, logs>>

\* RaceWrite whose mcq_submit UPDATE applies only while mcq_status is pending.
RaceWrite_compare_and_set ==
  /\ \E r \in 1..MaxRaceReqs :
       LET rq == reqs[r]
           questions == OrEmpty(rq.seen.mcq_questions)
           score == Percent(CorrectCount(questions, rq.answers), Len(questions))
           passed == mcq_passed(score)
           generated == generate_mcq_questions(test.skills,
                                               OrDefault(test.mcq_count, 10), rq.ai)
           ret == CASE rq.op = "mcq_start" ->
                         [NoResp EXCEPT !.op = rq.op, !.content = Some(generated),
                            !.generated = TRUE]
                    [] rq.op = "mcq_submit" ->
                         [NoResp EXCEPT !.op = rq.op, !.score = score,
                            !.passed = passed, !.scored = TRUE]
                    [] rq.op = "coding_submit" ->
                         [NoResp EXCEPT !.op = rq.op, !.passed = TRUE]
       IN /\ rq.pc = "read"
          /\ attempt' =
               CASE rq.op = "mcq_start" ->
                      [attempt EXCEPT !.mcq_questions = Some(generated)]
                 [] rq.op = "mcq_submit" /\ attempt.mcq_status # "pending" -> attempt
                 [] rq.op = "mcq_submit" /\ attempt.mcq_status = "pending" /\ ~passed ->
                      [attempt EXCEPT !.mcq_answers = Some(rq.answers),
                         !.mcq_score = score, !.mcq_status = "failed",
                         !.current_stage = "mcq", !.overall_status = "failed",
                         !.report = "report"]
                 [] rq.op = "mcq_submit" /\ attempt.mcq_status = "pending" /\ passed ->
                      [attempt EXCEPT !.mcq_answers = Some(rq.answers),
                         !.mcq_score = score, !.mcq_status = "completed",
                         !.current_stage = "coding", !.overall_status = "in_progress"]
                 [] rq.op = "coding_submit" ->
                      [attempt EXCEPT !.coding_submissions =
                                         rq.seen.coding_submissions \cup {rq.id}]
          /\ reqs' = [reqs EXCEPT ![r].pc = "done", ![r].ret = ret]
          /\ resp' = ret
  /\ UNCHANGED <<test, sandbox, nreq, attempts, query, executed, call, service, logs>>

\* The rest of the handler: what it computes from the row it fetched, its
\* UPDATE of the columns it names, and its return.
RaceWrite ==
  /\ \E r \in 1..MaxRaceReqs :
       LET rq == reqs[r]
           questions == OrEmpty(rq.seen.mcq_questions)
           score == Percent(CorrectCount(questions, rq.answers), Len(questions))
           passed == mcq_passed(score)
           generated == generate_mcq_questions(test.skills,
                                               OrDefault(test.mcq_count, 10), rq.ai)
           ret == CASE rq.op = "mcq_start" ->
                         [NoResp EXCEPT !.op = rq.op, !.content = Some(generated),
                            !.generated = TRUE]
                    [] rq.op = "mcq_submit" ->
                         [NoResp EXCEPT !.op = rq.op, !.score = score,
                            !.passed = passed, !.scored = TRUE]
                    [] rq.op = "coding_submit" ->
                         [NoResp EXCEPT !.op = rq.op, !.passed = TRUE]
       IN /\ rq.pc = "read"
          /\ attempt' =
               CASE rq.op = "mcq_start" ->
                      [attempt EXCEPT !.mcq_questions = Some(generated)]
                 [] rq.op = "mcq_submit" /\ ~passed ->
                      [attempt EXCEPT !.mcq_answers = Some(rq.answers),
                         !.mcq_score = score, !.mcq_status = "failed",
                         !.current_stage = "mcq", !.overall_status = "failed",
                         !.report = "report"]
                 [] rq.op = "mcq_submit" /\ passed ->
                      [attempt EXCEPT !.mcq_answers = Some(rq.answers),
                         !.mcq_score = score, !.mcq_status = "completed",
                         !.current_stage = "coding", !.overall_status = "in_progress"]
                 [] rq.op = "coding_submit" ->
                      [attempt EXCEPT !.coding_submissions =
                                         rq.seen.coding_submissions \cup {rq.id}]
          /\ reqs' = [reqs EXCEPT ![r].pc = "done", ![r].ret = ret]
          /\ resp' = ret
  /\ UNCHANGED <<test, sandbox, nreq, attempts, query, executed, call, service, logs>>

NextRace == RaceRead \/ RaceWrite

SpecRace == InitRace /\ [][NextRace]_vars

\* C23: an mcq_submit that has passed the already-completed check scores its
\* own payload on the questions it fetched and writes score, status and
\* current_stage whatever the row holds by then (no compare-and-set on the
\* stage status): of two concurrent requests read while the stage is pending,
\* both write, and the persisted result is that of the later write.
C23_SubmitWritesUnconditionally ==
  [][\A r \in 1..MaxRaceReqs :
       (reqs[r].pc = "read" /\ reqs[r].op = "mcq_submit" /\ reqs'[r].pc = "done")
         => LET ret == reqs'[r].ret
                questions == OrEmpty(reqs[r].seen.mcq_questions)
            IN /\ ret.scored
               /\ ret.score = Percent(CorrectCount(questions, reqs[r].answers),
                                      Len(questions))
               /\ attempt'.mcq_score = ret.score
               /\ attempt'.mcq_answers = Some(reqs[r].answers)
               /\ attempt'.mcq_status = IF ret.passed THEN "completed" ELSE "failed"
               /\ attempt'.current_stage = IF ret.passed THEN "coding" ELSE "mcq"]_vars

\* Two mcq_submit requests fetched the row while the stage was pending, both
\* scored and wrote; the first was told it passed, the persisted stage is failed.
C23_Witness ==
  \E r1, r2 \in 1..MaxRaceReqs :
    /\ r1 # r2
    /\ \A r \in {r1, r2} :
         /\ reqs[r].op = "mcq_submit" /\ reqs[r].pc = "done" /\ reqs[r].ret.scored
         /\ reqs[r].seen.mcq_status = "pending"
         /\ reqs[r].seen.mcq_questions # None
    /\ reqs[r1].ret.passed /\ ~reqs[r2].ret.passed
    /\ attempt.mcq_status = "failed" /\ attempt.current_stage = "mcq"
    /\ attempt.mcq_score = reqs[r2].ret.score

\* C24: under any interleaving of concurrent mcq_start calls made before the
\* questions exist, the questions are generated and written at most once, and
\* every caller has received the questions that are persisted on the attempt.
C24_StartGeneratesOnce ==
  /\ Cardinality({r \in 1..MaxRaceReqs :
                    reqs[r].op = "mcq_start" /\ reqs[r].ret.generated}) <= 1
  /\ \A r \in 1..MaxRaceReqs :
       (reqs[r].op = "mcq_start" /\ reqs[r].pc = "done")
         => reqs[r].ret.content = attempt.mcq_questions

\* C25: every coding_submit that has returned success has its entry in the
\* stored coding_submissions, under every interleaving of the requests.
C25_NoSubmissionLost ==
  \A r \in 1..MaxRaceReqs :
    (reqs[r].op = "coding_submit" /\ reqs[r].pc = "done" /\ reqs[r].ret.ok)
      => reqs[r].id \in attempt.coding_submissions

\* ---- proctoring_log, statement by statement ---------------------------------
\* The connection pool runs with autocommit, so the INSERT and the UPDATE of a
\* call are committed one by one and the calls of several requests interleave
\* at each await.
MaxProctorReqs == 3
ProctorRequests == 1..MaxProctorReqs

\* mcq_violations as the handlers read it: attempt.get("mcq_violations") or 0.
Violations(a) == IF a.mcq_violations = None THEN 0 ELSE a.mcq_violations[1]

\* proctoring_log whose UPDATE runs for every severity.
proctoring_log_insert_any_severity(r) ==
  /\ reqs[r].pc = "new"
  /\ \E id \in ProctoredIds, severity \in Severities :
       /\ logs' = [logs EXCEPT ![<<id, severity>>] = @ + 1]
       /\ reqs' = [reqs EXCEPT ![r] = [pc |-> "logged", attempt_id |-> id,
                                        severity |-> severity]]
       /\ UNCHANGED <<attempt, resp>>

\* proctoring_log up to the INSERT INTO skill_proctoring_logs; a severity other
\* than "high" ends the call.
proctoring_log_insert(r) ==
  /\ reqs[r].pc = "new"
  /\ \E id \in ProctoredIds, severity \in Severities :
       /\ logs' = [logs EXCEPT ![<<id, severity>>] = @ + 1]
       /\ reqs' = [reqs EXCEPT ![r] = [pc |-> IF severity = "high" THEN "logged"
                                               ELSE "done",
                                        attempt_id |-> id, severity |-> severity]]
       /\ IF severity = "high"
          THEN UNCHANGED resp
          ELSE resp' = [NoResp EXCEPT !.op = "proctoring_log"]
       /\ UNCHANGED attempt

\* UPDATE skill_test_attempts SET mcq_violations = COALESCE(mcq_violations,0)+1
\* WHERE id = attempt_id: one statement, the row of that id only.
proctoring_log_update(r) ==
  /\ reqs[r].pc = "logged"
  /\ attempt' = IF reqs[r].attempt_id = 1
                THEN [attempt EXCEPT !.mcq_violations = Some(Violations(attempt) + 1)]
                ELSE attempt
  /\ reqs' = [reqs EXCEPT ![r].pc = "done"]
  /\ resp' = [NoResp EXCEPT !.op = "proctoring_log"]
  /\ UNCHANGED logs

InitProctor ==
  /\ test \in Tests
  /\ attempt = NewAttempt
  /\ sandbox = create_sandbox(NoSandbox)
  /\ reqs = [r \in ProctorRequests |->
               [pc |-> "new", attempt_id |-> 0, severity |-> "none"]]
  /\ logs = NoLogs
  /\ resp = NoResp /\ nreq = 0
  /\ attempts = <<>> /\ query = <<>> /\ executed = {}
  /\ call = NoCall /\ service = "any"

ProctorFrame ==
  UNCHANGED <<test, sandbox, nreq, attempts, query, executed, call, service>>

ProctorInsert == ProctorFrame /\ \E r \in ProctorRequests : proctoring_log_insert(r)
ProctorUpdate == ProctorFrame /\ \E r \in ProctorRequests : proctoring_log_update(r)
\* The student works on the MCQ stage while the events are logged.
ProctorMcqStart ==
  /\ ProctorFrame /\ UNCHANGED <<reqs, logs>>
  /\ \E ai \in McqAiAnswers : mcq_start(ai)
ProctorMcqSubmit ==
  /\ ProctorFrame /\ UNCHANGED <<reqs, logs>>
  /\ attempt.mcq_status = "pending"
  /\ \E answers \in ProctoredPayloads, rep \in Reports : mcq_submit(answers, rep)

NextProctor ==
  ProctorInsert \/ ProctorUpdate \/ ProctorMcqStart \/ ProctorMcqSubmit

SpecProctor == InitProctor /\ [][NextProctor]_vars

\* The high-severity events logged for the attempt whose call has yet to run
\* its UPDATE.
PendingHigh(rq) ==
  Cardinality({r \in ProctorRequests :
                 rq[r].pc = "logged" /\ rq[r].attempt_id = 1 /\ rq[r].severity = "high"})

\* C20: the attempt's violation counter is the number of its logged events of
\* severity high whose call has run to its end, concurrent calls included; an
\* event of another severity, or for another attempt, leaves the counter
\* unchanged; and no statement of proctoring_log changes a stage status, a
\* stage score, current_stage or overall_status.
C20_CounterCountsHighEvents ==
  [][/\ Violations(attempt') = logs'[<<1, "high">>] - PendingHigh(reqs')
     /\ reqs' # reqs => Progress(attempt') = Progress(attempt)
     /\ \A r \in ProctorRequests :
          (reqs'[r] # reqs[r] /\ (reqs'[r].severity # "high" \/ reqs'[r].attempt_id # 1))
            => attempt' = attempt]_vars

\* Three high-severity events of the attempt are logged; one call has run its
\* UPDATE, the two others are between their INSERT and their UPDATE at the
\* same time, after the MCQ stage was scored.
C20_Witness ==
  /\ logs[<<1, "high">>] = 3
  /\ PendingHigh(reqs) = 2
  /\ attempt.mcq_violations = Some(1)
  /\ attempt.mcq_status # "pending"

\* C35: coding_regenerate and sql_regenerate write the stage's problem set and
\* nothing else: submissions, scores, statuses, current_stage, overall_status,
\* report and the other stages' data stay as they are, whatever the state of
\* the stage.
C35_RegenerateWritesProblemsOnly ==
  [][/\ resp'.op = "coding_regenerate"
          => /\ attempt' = [attempt EXCEPT !.coding_problems = resp'.content]
             /\ sandbox' = sandbox
     /\ resp'.op = "sql_regenerate"
          => /\ attempt' = [attempt EXCEPT !.sql_problems = resp'.content]
             /\ sandbox' = sandbox]_vars

\* The problems of a completed coding stage with a submission were regenerated.
C35_Witness ==
  /\ resp.op = "coding_regenerate" /\ resp.generated
  /\ attempt.coding_status = "completed" /\ attempt.current_stage = "sql"
  /\ attempt.coding_submissions # {}
  /\ attempt.coding_problems = resp.content

\* ---- reference queries of the SQL problems --------------------------------
\* C31: every SQL problem set sql_start or sql_regenerate stores has reference
\* queries written against the test's sandbox table names, never against the
\* generic names, on the service path and on the fallback path alike.
C31_ReferenceNamesSandbox ==
  \A i \in 1..Len(OrEmpty(attempt.sql_problems)) :
    OrEmpty(attempt.sql_problems)[i].ref = "sandbox"

\* ---- the MCQ deadline ------------------------------------------------------
\* Times are in seconds. In this part nreq is the clock (the time both
\* utcnow() and the store's CURRENT_TIMESTAMP read), the test carries its
\* mcq_duration_minutes and the attempt row its mcq_start_time column.
MaxClock == 6

InitDeadline ==
  /\ test \in {[mcq_duration_minutes |-> d] @@ t : t \in Tests, d \in {15, 30}}
  /\ attempt = [mcq_start_time |-> None] @@ NewAttempt
  /\ sandbox = create_sandbox(NoSandbox)
  /\ resp = [end_time |-> 0] @@ NoResp
  /\ nreq = 0
  /\ Idle

\* POST /mcq/start/{attempt_id} with its clock reads: the request arrives wait
\* seconds after the previous return; on the generating path the UPDATE sets
\* mcq_start_time = CURRENT_TIMESTAMP, and lag seconds later, after the commit,
\* the handler computes end from utcnow().
McqStartDeadline ==
  \E ai \in McqAiAnswers, wait \in 0..1, lag \in 0..1 :
    LET dur == OrDefault(test.mcq_duration_minutes, 30)
        now == nreq + wait
    IN
    /\ now + lag <= MaxClock
    /\ IF Truthy(attempt.mcq_questions)
       THEN LET start == IF attempt.mcq_start_time # None
                         THEN attempt.mcq_start_time[1] ELSE now
            IN /\ resp' = [end_time |-> start + dur * 60] @@
                            [NoResp EXCEPT !.op = "mcq_start",
                               !.content = attempt.mcq_questions]
               /\ nreq' = now
               /\ UNCHANGED attempt
       ELSE LET questions ==
                  generate_mcq_questions(test.skills, OrDefault(test.mcq_count, 10), ai)
            IN /\ attempt' = [attempt EXCEPT !.mcq_questions = Some(questions),
                                             !.mcq_start_time = Some(now)]
               /\ resp' = [end_time |-> now + lag + dur * 60] @@
                            [NoResp EXCEPT !.op = "mcq_start",
                               !.content = Some(questions), !.generated = TRUE]
               /\ nreq' = now + lag
    /\ UNCHANGED <<test, sandbox, attempts, reqs, query, executed, call, service, logs>>

NextDeadline == McqStartDeadline

SpecDeadline == InitDeadline /\ [][NextDeadline]_vars

\* C38: every mcq_start returns end_time = (the time the MCQ content was
\* generated and stored) + mcq_duration_minutes, so that a repeated mcq_start
\* returns the end_time the previous one returned.
C38_DeadlineFixedAtGeneration ==
  [][resp'.op = "mcq_start"
       => /\ resp'.end_time =
               attempt'.mcq_start_time[1] + test.mcq_duration_minutes * 60
          /\ resp.op = "mcq_start" => resp'.end_time = resp.end_time]_vars

\* ---- cerebras_chat: the credentials in turn --------------------------------
\* In this part service is the list of the configured credentials
\* (settings.CEREBRAS_API_KEYS, duplicates removed), each given as what the
\* service does with a request under it: "ok" (status < 400 and a JSON body),
\* "http_error" (status >= 400) or "exception" (the request or resp.json()
\* raises); reqs is the list of the credentials posted so far, call.pc the
\* position of the loop (0: not in the loop).
MaxKeys == 3

InitKeys ==
  /\ service \in UNION {[1..n -> {"ok", "http_error", "exception"}] : n \in 0..MaxKeys}
  /\ test \in Tests
  /\ attempt = NewAttempt
  /\ sandbox = create_sandbox(NoSandbox)
  /\ resp = NoResp
  /\ nreq = 0
  /\ attempts = <<>> /\ reqs = <<>> /\ query = <<>> /\ executed = {}
  /\ call = NoCall /\ logs = NoLogs

\* cerebras_chat that gives up at the first credential that fails.
cerebras_chat_without_failover ==
  /\ resp.op = "none"
  /\ IF call.pc = 0
     THEN /\ IF service = <<>>
             THEN /\ resp' = [NoResp EXCEPT !.op = "cerebras_chat", !.ok = FALSE,
                                !.error = "no_keys"]
                  /\ UNCHANGED call
             ELSE /\ call' = [call EXCEPT !.pc = 1]
                  /\ UNCHANGED resp
          /\ UNCHANGED reqs
     ELSE /\ reqs' = Append(reqs, call.pc)
          /\ call' = [call EXCEPT !.pc = 0]
          /\ resp' = IF service[call.pc] = "ok"
                     THEN [NoResp EXCEPT !.op = "cerebras_chat",
                             !.content = Some(call.pc)]
                     ELSE [NoResp EXCEPT !.op = "cerebras_chat", !.ok = FALSE,
                             !.error = service[call.pc]]
  /\ UNCHANGED <<test, attempt, sandbox, nreq, attempts, query, executed, service, logs>>

\* cerebras_chat, one step: the entry with the check of the list, or one pass
\* of the loop, which posts under the credential at call.pc and returns its
\* response, goes on to the next credential, or after the last one raises the
\* last error.
CerebrasChat ==
  /\ resp.op = "none"
  /\ IF call.pc = 0
     THEN /\ IF service = <<>>
             THEN /\ resp' = [NoResp EXCEPT !.op = "cerebras_chat", !.ok = FALSE,
                                !.error = "no_keys"]
                  /\ UNCHANGED call
             ELSE /\ call' = [call EXCEPT !.pc = 1]
                  /\ UNCHANGED resp
          /\ UNCHANGED reqs
     ELSE /\ reqs' = Append(reqs, call.pc)
          /\ IF service[call.pc] = "ok"
             THEN /\ call' = [call EXCEPT !.pc = 0]
                  /\ resp' = [NoResp EXCEPT !.op = "cerebras_chat",
                                !.content = Some(call.pc)]
             ELSE IF call.pc < Len(service)
             THEN /\ call' = [call EXCEPT !.pc = call.pc + 1]
                  /\ UNCHANGED resp
             ELSE /\ call' = [call EXCEPT !.pc = 0]
                  /\ resp' = [NoResp EXCEPT !.op = "cerebras_chat", !.ok = FALSE,
                                !.error = service[call.pc]]
  /\ UNCHANGED <<test, attempt, sandbox, nreq, attempts, query, executed, service, logs>>

SpecKeys == InitKeys /\ [][CerebrasChat]_vars

\* C32: cerebras_chat posts under the credentials in list order, each at most
\* once, under credential i+1 only after credential i failed; it returns the
\* first successful response and contacts no later credential, and it raises
\* only when every credential failed or none is configured.
C32_FailoverInOrder ==
  /\ \A i \in 1..Len(reqs) : reqs[i] = i
  /\ \A i \in 1..(Len(reqs) - 1) : service[i] # "ok"
  /\ (resp.op = "cerebras_chat" /\ resp.ok)
       => /\ reqs # <<>>
          /\ service[Len(reqs)] = "ok"
          /\ resp.content = Some(Len(reqs))
  /\ (resp.op = "cerebras_chat" /\ ~resp.ok)
       => /\ Len(reqs) = Len(service)
          /\ \A i \in 1..Len(service) : service[i] # "ok"
          /\ resp.error = IF service = <<>> THEN "no_keys" ELSE service[Len(service)]

\* The first credential failed, the second answered, the third was not used.
C32_Witness ==
  /\ resp.op = "cerebras_chat" /\ resp.ok
  /\ service = <<"http_error", "ok", "ok">>
  /\ reqs = <<1, 2>>

\* ---- get_submission_report: the cached personalized report ------------------
\* In this part attempts is the list of the personalized_reports rows of the
\* submission, each row its report_data: "full" (questionInsights with Q1),
\* "partial" (a non-empty object without them) or "empty" ({} or null, falsy).
\* No row is cached at first.
InitReport ==
  /\ test \in Tests
  /\ attempt = NewAttempt
  /\ sandbox = create_sandbox(NoSandbox)
  /\ resp = NoResp
  /\ nreq = 0
  /\ Idle

\* GET /global-test-submissions/{submission_id}/report: ai is what the service
\* answers (an exception or content that is not JSON, or a JSON payload);
\* the table's keys are not in the source, so an INSERT for a submission that
\* has a row either adds a row or raises (duplicate_raises).
GetSubmissionReport ==
  /\ nreq < MaxRequests
  /\ nreq' = nreq + 1
  /\ \E ai \in {"fails", "empty", "partial", "full"}, duplicate_raises \in BOOLEAN :
       LET existing == attempts
           existing_data == IF existing # <<>> /\ existing[1] # "empty"
                            THEN Some(existing[1]) ELSE None
           needs_regen == existing_data = Some("partial")
           fallback(error) ==
             [NoResp EXCEPT !.op = "get_submission_report", !.ok = FALSE,
                !.generated = TRUE, !.error = error, !.content = Some("fallback")]
       IN IF existing_data # None /\ ~needs_regen
          THEN /\ resp' = [NoResp EXCEPT !.op = "get_submission_report",
                             !.content = existing_data]
               /\ UNCHANGED attempts
          ELSE IF ai = "fails"
          THEN resp' = fallback("ai_failed") /\ UNCHANGED attempts
          ELSE IF needs_regen
          THEN /\ attempts' = [i \in DOMAIN attempts |-> ai]
               /\ resp' = [NoResp EXCEPT !.op = "get_submission_report",
                             !.generated = TRUE, !.content = Some(ai)]
          ELSE IF existing # <<>> /\ duplicate_raises
          THEN resp' = fallback("store_failed") /\ UNCHANGED attempts
          ELSE /\ attempts' = Append(attempts, ai)
               /\ resp' = [NoResp EXCEPT !.op = "get_submission_report",
                             !.generated = TRUE, !.content = Some(ai)]
  /\ UNCHANGED <<test, attempt, sandbox, reqs, query, executed, call, service, logs>>

SpecReport == InitReport /\ [][GetSubmissionReport]_vars

\* C37: a cached payload that has questionInsights with Q1 is returned without
\* a call of the AI service and without a write; with a cached payload that
\* lacks them the report is regenerated and overwrites the cached row; at most
\* one cached row exists per submission.
C37_CachedReportSingleRow ==
  [][resp'.op = "get_submission_report"
       => /\ (attempts # <<>> /\ attempts[1] = "full")
               => /\ ~resp'.generated
                  /\ resp'.content = Some("full")
                  /\ attempts' = attempts
          /\ (attempts # <<>> /\ attempts[1] # "full" /\ resp'.error # "ai_failed")
               => /\ resp'.generated
                  /\ attempts' = <<resp'.content[1]>>
          /\ Len(attempts') <= 1]_vars
====
